---- MODULE Spec2Model ----
(***************************************************************************)
(* Model of the S-expression tokenizer of src/src/lexer.rs.                *)
(*                                                                         *)
(* The input text is a sequence of characters (one-character strings; a    *)
(* non-ASCII character is written by its code point, "U+0663").  The       *)
(* Peekable<Chars> cursor is the index pos of the next character the       *)
(* iterator will return.  Every helper of the tokenizer is an operator     *)
(* over (text, cursor) computed the way the code computes it, and every    *)
(* match arm of Tokenizer::next is one action that includes the trivia     *)
(* skipping the handler starts with.                                       *)
(***************************************************************************)
EXTENDS Integers, Sequences, FiniteSets, TLC

VARIABLES input, pos, prevPos, look, result, out, endPulls

vars == <<input, pos, prevPos, look, result, out, endPulls>>

(* ---------------------------- bounds ----------------------------------- *)
MaxPieces == 3
MaxWordPieces == 3
MaxStringPieces == 4
MaxEndPulls == 2

(* ------------------------ character classes ---------------------------- *)
NoChar == "EOF"

AsciiDigits == {"0", "1", "2", "3", "4", "5", "6", "7", "8", "9"}

LowerCase == {"a", "b", "c", "d", "e", "f", "g", "h", "i", "j", "k", "l", "m",
              "n", "o", "p", "q", "r", "s", "t", "u", "v", "w", "x", "y", "z"}

UpperCase == {"A", "B", "C", "D", "E", "F", "G", "H", "I", "J", "K", "L", "M",
              "N", "O", "P", "Q", "R", "S", "T", "U", "V", "W", "X", "Y", "Z"}

\* U+0663 ARABIC-INDIC DIGIT THREE (category Nd): numeric, not alphabetic.
\* U+2167 ROMAN NUMERAL EIGHT (category Nl): numeric and alphabetic.
ArabicIndicThree == "U+0663"
RomanEight == "U+2167"

\* char::is_whitespace: the Unicode White_Space property.
is_whitespace(c) == c \in {" ", "\n", "\t", "\r"}

\* char::is_numeric: the Unicode categories Nd, Nl and No.
is_numeric(c) == c \in AsciiDigits \cup {ArabicIndicThree, RomanEight}

\* char::is_alphabetic: the Unicode Alphabetic property (it includes Nl).
is_alphabetic(c) == c \in LowerCase \cup UpperCase \cup {RomanEight}

IsBracket(c) == c \in {"(", "[", "{", ")", "]", "}"}

(* ---------------------------- the cursor ------------------------------- *)
\* Peekable::peek: the next character, or NoChar when the text is exhausted.
Peek(s, p) == IF p <= Len(s) THEN s[p] ELSE NoChar

\* The furthest character a peek at index p has examined.
Seen(s, p) == IF p <= Len(s) THEN p ELSE Len(s)

(* ----------------------------- tokens ---------------------------------- *)
\* Token and TokenError values share one shape: text is the payload of
\* Identifier, StringLiteral and UnexpectedChar, flag that of BooleanLiteral,
\* mant/scale that of NumberLiteral (the decimal mant / 10^scale).
Tok(t) == [type |-> t, text |-> <<>>, flag |-> FALSE, mant |-> 0, scale |-> 0]
TextTok(t, w) == [type |-> t, text |-> w, flag |-> FALSE, mant |-> 0, scale |-> 0]
BoolTok(b) == [type |-> "BooleanLiteral", text |-> <<>>, flag |-> b, mant |-> 0, scale |-> 0]
NumTok(v) == [type |-> "NumberLiteral", text |-> <<>>, flag |-> FALSE,
              mant |-> v.mant, scale |-> v.scale]

Ok(t) == [kind |-> "Ok", tok |-> t]
Err(t) == [kind |-> "Err", tok |-> t]
None == [kind |-> "None", tok |-> Tok("-")]
Panic == [kind |-> "Panic", tok |-> Tok("-")]
NotPulled == [kind |-> "NotPulled", tok |-> Tok("-")]

(* ------------------------ trivia skipping ------------------------------ *)
RECURSIVE consume_whitespace(_, _)
consume_whitespace(s, p) ==
    IF p <= Len(s) /\ is_whitespace(s[p]) THEN consume_whitespace(s, p + 1) ELSE p

\* Variant: the comment runs to the end of the input, newline or not.
read_rest_of_line_to_end(s, p) == Len(s) + 1

RECURSIVE read_rest_of_line(_, _)
read_rest_of_line(s, p) ==
    IF p > Len(s) THEN p
    ELSE IF s[p] = "\n" THEN p + 1
    ELSE read_rest_of_line(s, p + 1)

\* Variant: the loop skips whitespace only and stops at a ';'.
SkipLoopNoComments(s, p) == consume_whitespace(s, p)

RECURSIVE SkipLoop(_, _)
SkipLoop(s, p) ==
    IF p > Len(s) THEN p
    ELSE IF is_whitespace(s[p]) THEN SkipLoop(s, p + 1)
    ELSE IF s[p] = ";" THEN SkipLoop(s, read_rest_of_line(s, p))
    ELSE p

consume_whitespace_and_comments_until_next_input(s, p) ==
    consume_whitespace(s, SkipLoop(s, p))

(* --------------------------- read_word --------------------------------- *)
\* Variant: a ';' ends a word, as if a comment started there.
RECURSIVE WordEndAtComment(_, _)
WordEndAtComment(s, p) ==
    IF p > Len(s) THEN p
    ELSE IF is_whitespace(s[p]) THEN p
    ELSE IF IsBracket(s[p]) THEN p
    ELSE IF s[p] = ";" THEN p
    ELSE WordEndAtComment(s, p + 1)

RECURSIVE WordEnd(_, _)
WordEnd(s, p) ==
    IF p > Len(s) THEN p
    ELSE IF is_whitespace(s[p]) THEN p
    ELSE IF IsBracket(s[p]) THEN p
    ELSE WordEnd(s, p + 1)

\* Variant: "Else" is matched as the keyword else.
WordTokenAnyCase(word) ==
    IF word = <<"c", "o", "n", "d">> THEN Tok("Cond")
    ELSE IF word = <<"e", "l", "s", "e">> \/ word = <<"E", "l", "s", "e">>
    THEN Tok("Else")
    ELSE IF word = <<"l", "e", "t">> THEN Tok("Let")
    ELSE IF word = <<"l", "i", "s", "t">> THEN Tok("List")
    ELSE IF word = <<"d", "e", "f", "i", "n", "e">> THEN Tok("Define")
    ELSE IF word = <<"l", "a", "m", "b", "d", "a">> THEN Tok("Lambda")
    ELSE TextTok("Identifier", word)

WordToken(word) ==
    IF word = <<"c", "o", "n", "d">> THEN Tok("Cond")
    ELSE IF word = <<"e", "l", "s", "e">> THEN Tok("Else")
    ELSE IF word = <<"l", "e", "t">> THEN Tok("Let")
    ELSE IF word = <<"l", "i", "s", "t">> THEN Tok("List")
    ELSE IF word = <<"d", "e", "f", "i", "n", "e">> THEN Tok("Define")
    ELSE IF word = <<"l", "a", "m", "b", "d", "a">> THEN Tok("Lambda")
    ELSE TextTok("Identifier", word)

read_word(s, p) ==
    LET e == WordEnd(s, p)
    IN  [res |-> Ok(WordToken(SubSeq(s, p, e - 1))), pos |-> e, look |-> Seen(s, e)]

(* ------------------------- read_hash_value ----------------------------- *)
\* Variant: the run after '#' also ends at a bracket, as a word does.
HashEndAtBracket(s, p) == WordEnd(s, p)

RECURSIVE HashEnd(_, _)
HashEnd(s, p) ==
    IF p > Len(s) THEN p
    ELSE IF is_whitespace(s[p]) THEN p
    ELSE HashEnd(s, p + 1)

HashToken(word) ==
    IF word = <<"t">> \/ word = <<"t", "r", "u", "e">> THEN BoolTok(TRUE)
    ELSE IF word = <<"f">> \/ word = <<"f", "a", "l", "s", "e">> THEN BoolTok(FALSE)
    ELSE TextTok("Identifier", word)

read_hash_value(s, p) ==
    LET e == HashEnd(s, p)
    IN  [res |-> Ok(HashToken(SubSeq(s, p, e - 1))), pos |-> e, look |-> Seen(s, e)]

(* --------------------------- read_number ------------------------------- *)
RECURSIVE NumericEnd(_, _)
NumericEnd(s, p) ==
    IF p > Len(s) THEN p
    ELSE IF ~is_numeric(s[p]) THEN p
    ELSE NumericEnd(s, p + 1)

\* The cursor after read_number: a run of numeric characters, then, if the
\* next character is '.', that '.' and a further run of numeric characters.
NumberEnd(s, p) ==
    LET e == NumericEnd(s, p)
    IN  IF Peek(s, e) = "." THEN NumericEnd(s, e + 1) ELSE e

DigitVal(c) ==
    CASE c = "0" -> 0 [] c = "1" -> 1 [] c = "2" -> 2 [] c = "3" -> 3
      [] c = "4" -> 4 [] c = "5" -> 5 [] c = "6" -> 6 [] c = "7" -> 7
      [] c = "8" -> 8 [] c = "9" -> 9

RECURSIVE Normalise(_)
Normalise(v) ==
    IF v.scale > 0 /\ v.mant % 10 = 0
    THEN Normalise([mant |-> v.mant \div 10, scale |-> v.scale - 1])
    ELSE v

\* Accumulates the decimal text t from index i on: mant is the digits read
\* so far, scale the number of digits read after the decimal point.
RECURSIVE Accumulate(_, _, _, _, _)
Accumulate(t, i, mant, scale, afterPoint) ==
    IF i > Len(t) THEN [mant |-> mant, scale |-> scale]
    ELSE IF t[i] = "." THEN Accumulate(t, i + 1, mant, scale, TRUE)
    ELSE Accumulate(t, i + 1, 10 * mant + DigitVal(t[i]),
                    IF afterPoint THEN scale + 1 ELSE scale, afterPoint)

\* str::parse::<f64> on the texts read_number can build (no sign, no
\* exponent): the text must be ASCII digits with at most one '.', and at
\* least one digit.  The value is the decimal the text denotes; two texts
\* of the same value ("1.", "1.0", "01") give the same number.
ParseOk(t) ==
    /\ \A i \in 1..Len(t) : t[i] \in AsciiDigits \cup {"."}
    /\ Cardinality({i \in 1..Len(t) : t[i] = "."}) <= 1
    /\ \E i \in 1..Len(t) : t[i] \in AsciiDigits

ParseF64(t) == Normalise(Accumulate(t, 1, 0, 0, FALSE))

\* read_number, with the factor the caller multiplies the result by.
\* num.parse().unwrap() panics when the text does not parse.
read_number(s, p, sign) ==
    LET e == NumberEnd(s, p)
        num == SubSeq(s, p, e - 1)
        v == ParseF64(num)
    IN  [res |-> IF ParseOk(num)
                 THEN Ok(NumTok([mant |-> sign * v.mant, scale |-> v.scale]))
                 ELSE Panic,
         pos |-> e, look |-> Seen(s, e)]

(* --------------------------- read_string ------------------------------- *)
\* Variant: the character after the backslash of a bad escape is consumed.
RECURSIVE StringLoopSwallowsEscape(_, _, _)
StringLoopSwallowsEscape(s, p, buf) ==
    IF p > Len(s)
    THEN [res |-> Err(Tok("IncompleteString")), pos |-> p, look |-> Len(s)]
    ELSE IF s[p] = "\""
    THEN [res |-> Ok(TextTok("StringLiteral", buf)), pos |-> p + 1, look |-> p]
    ELSE IF s[p] = "\\"
    THEN IF Peek(s, p + 1) \in {"\"", "\\"}
         THEN StringLoopSwallowsEscape(s, p + 2, Append(buf, s[p + 1]))
         ELSE [res |-> Err(Tok("InvalidEscape")),
               pos |-> IF p + 1 <= Len(s) THEN p + 2 ELSE p + 1,
               look |-> Seen(s, p + 1)]
    ELSE StringLoopSwallowsEscape(s, p + 1, Append(buf, s[p]))

\* Variant: an escape keeps its backslash in the buffer.
RECURSIVE StringLoopKeepsBackslash(_, _, _)
StringLoopKeepsBackslash(s, p, buf) ==
    IF p > Len(s)
    THEN [res |-> Err(Tok("IncompleteString")), pos |-> p, look |-> Len(s)]
    ELSE IF s[p] = "\""
    THEN [res |-> Ok(TextTok("StringLiteral", buf)), pos |-> p + 1, look |-> p]
    ELSE IF s[p] = "\\"
    THEN IF Peek(s, p + 1) \in {"\"", "\\"}
         THEN StringLoopKeepsBackslash(s, p + 2, Append(Append(buf, s[p]), s[p + 1]))
         ELSE [res |-> Err(Tok("InvalidEscape")), pos |-> p + 1,
               look |-> Seen(s, p + 1)]
    ELSE StringLoopKeepsBackslash(s, p + 1, Append(buf, s[p]))

\* Variant: a bad escape is dropped and the literal goes on.
RECURSIVE StringLoopSkipsBadEscape(_, _, _)
StringLoopSkipsBadEscape(s, p, buf) ==
    IF p > Len(s)
    THEN [res |-> Err(Tok("IncompleteString")), pos |-> p, look |-> Len(s)]
    ELSE IF s[p] = "\""
    THEN [res |-> Ok(TextTok("StringLiteral", buf)), pos |-> p + 1, look |-> p]
    ELSE IF s[p] = "\\"
    THEN IF Peek(s, p + 1) \in {"\"", "\\"}
         THEN StringLoopSkipsBadEscape(s, p + 2, Append(buf, s[p + 1]))
         ELSE StringLoopSkipsBadEscape(s, p + 1, buf)
    ELSE StringLoopSkipsBadEscape(s, p + 1, Append(buf, s[p]))

\* The loop of read_string from cursor p with buffer buf.
RECURSIVE StringLoop(_, _, _)
StringLoop(s, p, buf) ==
    IF p > Len(s)
    THEN [res |-> Err(Tok("IncompleteString")), pos |-> p, look |-> Len(s)]
    ELSE IF s[p] = "\""
    THEN [res |-> Ok(TextTok("StringLiteral", buf)), pos |-> p + 1, look |-> p]
    ELSE IF s[p] = "\\"
    THEN IF Peek(s, p + 1) \in {"\"", "\\"}
         THEN StringLoop(s, p + 2, Append(buf, s[p + 1]))
         ELSE [res |-> Err(Tok("InvalidEscape")), pos |-> p + 1,
               look |-> Seen(s, p + 1)]
    ELSE StringLoop(s, p + 1, Append(buf, s[p]))

\* Variant: the opening quote is not skipped.
read_string_keeps_quote(s, p) == StringLoop(s, p, <<>>)

\* p is the index of the opening quote, which is skipped.
read_string(s, p) == StringLoop(s, p + 1, <<>>)

(* ------------------------- Tokenizer::next ----------------------------- *)
\* Variant: only '(' and ')' are brackets.
ArmParensOnly(c) ==
    IF c = NoChar THEN "None"
    ELSE IF c = "(" THEN "OpenParen"
    ELSE IF c = ")" THEN "CloseParen"
    ELSE IF c = "=" THEN "Equal"
    ELSE IF c = "<" THEN "Lt"
    ELSE IF c = ">" THEN "Gt"
    ELSE IF c = "+" THEN "Plus"
    ELSE IF c = "-" THEN "Minus"
    ELSE IF c = "*" THEN "Times"
    ELSE IF c = "/" THEN "Divide"
    ELSE IF c = "%" THEN "Percent"
    ELSE IF c = "#" THEN "Hash"
    ELSE IF c = "\"" THEN "String"
    ELSE IF (~is_whitespace(c) /\ (is_alphabetic(c) /\ ~is_numeric(c))) \/ c = "_"
    THEN "Word"
    ELSE IF is_numeric(c) THEN "Number"
    ELSE "Unexpected"

\* The match arm of next that the peeked character c selects, in the
\* order the arms are written.
Arm(c) ==
    IF c = NoChar THEN "None"
    ELSE IF c \in {"(", "[", "{"} THEN "OpenParen"
    ELSE IF c \in {")", "]", "}"} THEN "CloseParen"
    ELSE IF c = "=" THEN "Equal"
    ELSE IF c = "<" THEN "Lt"
    ELSE IF c = ">" THEN "Gt"
    ELSE IF c = "+" THEN "Plus"
    ELSE IF c = "-" THEN "Minus"
    ELSE IF c = "*" THEN "Times"
    ELSE IF c = "/" THEN "Divide"
    ELSE IF c = "%" THEN "Percent"
    ELSE IF c = "#" THEN "Hash"
    ELSE IF c = "\"" THEN "String"
    ELSE IF (~is_whitespace(c) /\ (is_alphabetic(c) /\ ~is_numeric(c))) \/ c = "_"
    THEN "Word"
    ELSE IF is_numeric(c) THEN "Number"
    ELSE "Unexpected"

\* Variant: the exhausted cursor starts over.
EndArmRewinds(s, st) == [res |-> None, pos |-> 1, look |-> Len(s)]

\* The text is exhausted after the trivia: the cursor stays at its end.
EndArm(s, st) == [res |-> None, pos |-> st, look |-> Len(s)]

\* One character consumed at st, token t, nothing peeked after it.
Single(s, st, t) == [res |-> Ok(Tok(t)), pos |-> st + 1, look |-> st]

\* Variant: the end of the input counts as whitespace after '='.
EqualArmAtEnd(s, st) ==
    [res |-> IF st + 1 > Len(s) \/ is_whitespace(s[st + 1])
             THEN Ok(Tok("Equal"))
             ELSE Err(Tok("IncompleteString")),
     pos |-> st + 1, look |-> Seen(s, st + 1)]

EqualArm(s, st) ==
    [res |-> IF st + 1 <= Len(s) /\ is_whitespace(s[st + 1])
             THEN Ok(Tok("Equal"))
             ELSE Err(Tok("IncompleteString")),
     pos |-> st + 1, look |-> Seen(s, st + 1)]

\* Variant: the '=' of a two-character operator is peeked, not consumed.
RelationalArmPeeksEqual(s, st, one, two) ==
    IF Peek(s, st + 1) = "="
    THEN [res |-> Ok(Tok(two)), pos |-> st + 1, look |-> st + 1]
    ELSE [res |-> Ok(Tok(one)), pos |-> st + 1, look |-> Seen(s, st + 1)]

\* '<' and '>': one is the token without '=', two the token with it.
RelationalArm(s, st, one, two) ==
    IF Peek(s, st + 1) = "="
    THEN [res |-> Ok(Tok(two)), pos |-> st + 2, look |-> st + 1]
    ELSE [res |-> Ok(Tok(one)), pos |-> st + 1, look |-> Seen(s, st + 1)]

\* Variant: a sign starts a number only at the start of the text or after
\* whitespace.
SignArmAfterSpace(s, st, op, sign) ==
    IF is_numeric(Peek(s, st + 1)) /\ (st = 1 \/ is_whitespace(s[st - 1]))
    THEN read_number(s, st + 1, sign)
    ELSE [res |-> Ok(Tok(op)), pos |-> st + 1, look |-> Seen(s, st + 1)]

\* '+' and '-': op is the operator token, sign the factor of the number.
SignArm(s, st, op, sign) ==
    IF is_numeric(Peek(s, st + 1))
    THEN read_number(s, st + 1, sign)
    ELSE [res |-> Ok(Tok(op)), pos |-> st + 1, look |-> Seen(s, st + 1)]

\* Variant: the unexpected character is reported from the peek, unconsumed.
UnexpectedArmPeeks(s, st) ==
    [res |-> Err(TextTok("UnexpectedChar", <<s[st]>>)), pos |-> st, look |-> st]

UnexpectedArm(s, st) ==
    [res |-> Err(TextTok("UnexpectedChar", <<s[st]>>)), pos |-> st + 1, look |-> st]

\* One call of next on text s with the cursor at p: the value returned,
\* the cursor afterwards, and the furthest character examined.
next(s, p) ==
    LET st == consume_whitespace_and_comments_until_next_input(s, p)
        c == Peek(s, st)
        arm == Arm(c)
    IN  CASE arm = "None" -> EndArm(s, st)
          [] arm \in {"OpenParen", "CloseParen", "Times", "Divide", "Percent"} ->
                Single(s, st, arm)
          [] arm = "Equal" -> EqualArm(s, st)
          [] arm = "Lt" -> RelationalArm(s, st, "Lt", "LtEq")
          [] arm = "Gt" -> RelationalArm(s, st, "Gt", "GtEq")
          [] arm = "Plus" -> SignArm(s, st, "Plus", 1)
          [] arm = "Minus" -> SignArm(s, st, "Minus", -1)
          [] arm = "Hash" ->
                LET r == read_hash_value(s, st + 1)
                IN  [r EXCEPT !.look = IF st > r.look THEN st ELSE r.look]
          [] arm = "String" -> read_string(s, st)
          [] arm = "Word" -> read_word(s, st)
          [] arm = "Number" -> read_number(s, st, 1)
          [] arm = "Unexpected" -> UnexpectedArm(s, st)

\* The scanner on text s with the cursor at p pulled to exhaustion: every
\* value next returns up to and including the first None, or the panic.
RECURSIVE Stream(_, _)
Stream(s, p) ==
    LET r == next(s, p)
    IN  IF r.res.kind \in {"None", "Panic"}
        THEN <<r.res>>
        ELSE <<r.res>> \o Stream(s, r.pos)

(* ----------------------------- inputs ---------------------------------- *)
RECURSIVE Flatten(_)
Flatten(ps) == IF ps = <<>> THEN <<>> ELSE Head(ps) \o Flatten(Tail(ps))

Texts(vocabulary, n) ==
    {Flatten(ps) : ps \in UNION {[1..k -> vocabulary] : k \in 0..n}}

Keywords == {<<"c", "o", "n", "d">>, <<"e", "l", "s", "e">>, <<"l", "e", "t">>,
             <<"l", "i", "s", "t">>, <<"d", "e", "f", "i", "n", "e">>,
             <<"l", "a", "m", "b", "d", "a">>}

\* Punctuation, digits and string characters, one character a piece
\* except for the run of the three single-character operators.
Vocabulary ==
    {<<" ">>, <<"\n">>, <<";">>, <<"(">>, <<")">>, <<"=">>, <<"<">>, <<">">>,
     <<"+">>, <<"-">>, <<"*", "/", "%">>, <<"#">>, <<"\"">>, <<"\\">>, <<".">>,
     <<"0">>, <<"1">>, <<ArabicIndicThree>>, <<RomanEight>>, <<"a">>, <<"_">>,
     <<"$">>}

\* Words: the keywords, the boolean spellings, near misses, and the
\* characters that end or do not end a word, with one run of punctuation.
WordVocabulary ==
    Keywords \cup
    {<<"E", "l", "s", "e">>, <<"t">>, <<"t", "r", "u", "e">>, <<"f">>,
     <<"f", "a", "l", "s", "e">>, <<" ">>, <<"(">>, <<"}">>, <<"#">>, <<";">>,
     <<"_">>, <<"1">>, <<RomanEight>>, <<"=", "<", "+", "*", "$", "\"">>}

\* Strings and comments: the quote, the backslash, the comment marker,
\* the newline, the space, a letter, '#' and a sign, with one run of a
\* digit and the remaining punctuation.
StringVocabulary ==
    {<<"\"">>, <<"\\">>, <<";">>, <<"\n">>, <<" ">>, <<"a">>, <<"#">>, <<"-">>,
     <<"1", "(", "=", "<", "*", "$">>}

(* --------------------------- the machine ------------------------------- *)
\* Tokenizer::new: the cursor is at the first character, nothing pulled.
Start(texts) ==
    /\ input \in texts
    /\ pos = 1
    /\ prevPos = 1
    /\ look = 0
    /\ result = NotPulled
    /\ out = <<>>
    /\ endPulls = 0

Init == Start(Texts(Vocabulary, MaxPieces))

InitWords == Start(Texts(WordVocabulary, MaxWordPieces))

InitStrings == Start(Texts(StringVocabulary, MaxStringPieces))

\* A panic unwinds the caller; pulls that return None are counted up to
\* MaxEndPulls.
CanPull == result.kind # "Panic" /\ endPulls < MaxEndPulls

\* The arm the next call of next will take.
NextArm == Arm(Peek(input, consume_whitespace_and_comments_until_next_input(input, pos)))

\* The state after one call of next.
Pull ==
    LET r == next(input, pos)
    IN  /\ prevPos' = pos
        /\ pos' = r.pos
        /\ look' = r.look
        /\ result' = r.res
        /\ out' = IF r.res.kind \in {"Ok", "Err"} THEN Append(out, r.res) ELSE out
        /\ endPulls' = IF r.res.kind = "None" THEN endPulls + 1 ELSE endPulls
        /\ UNCHANGED input

NextEnd == CanPull /\ NextArm = "None" /\ Pull
NextBracket == CanPull /\ NextArm \in {"OpenParen", "CloseParen"} /\ Pull
NextEqual == CanPull /\ NextArm = "Equal" /\ Pull
NextRelational == CanPull /\ NextArm \in {"Lt", "Gt"} /\ Pull
NextSign == CanPull /\ NextArm \in {"Plus", "Minus"} /\ Pull
NextArith == CanPull /\ NextArm \in {"Times", "Divide", "Percent"} /\ Pull
NextHash == CanPull /\ NextArm = "Hash" /\ Pull
NextString == CanPull /\ NextArm = "String" /\ Pull
NextWord == CanPull /\ NextArm = "Word" /\ Pull
NextNumber == CanPull /\ NextArm = "Number" /\ Pull
NextUnexpected == CanPull /\ NextArm = "Unexpected" /\ Pull

Next ==
    \/ NextEnd
    \/ NextBracket
    \/ NextEqual
    \/ NextRelational
    \/ NextSign
    \/ NextArith
    \/ NextHash
    \/ NextString
    \/ NextWord
    \/ NextNumber
    \/ NextUnexpected

Spec == Init /\ [][Next]_vars

SpecWords == InitWords /\ [][Next]_vars

SpecStrings == InitStrings /\ [][Next]_vars

TypeOK ==
    /\ pos \in 1..(Len(input) + 1)
    /\ prevPos \in 1..pos
    /\ result.kind \in {"NotPulled", "None", "Ok", "Err", "Panic"}

(* ------------------- vocabulary of the properties ---------------------- *)
Returned == result.kind \in {"Ok", "Err"}

Pulled == result.kind # "NotPulled"

\* Everything in s from index p up to, not including, index e is trivia:
\* whitespace, a ';', or a character after a ';' with no newline between.
TriviaPrefix(s, p, e) ==
    \A i \in p..(e - 1) :
        \/ is_whitespace(s[i])
        \/ s[i] = ";"
        \/ \E j \in p..(i - 1) : s[j] = ";" /\ \A k \in j..(i - 1) : s[k] # "\n"

\* The first character at or after p that is not trivia, Len(s) + 1 if none.
FirstNonTrivia(s, p) ==
    CHOOSE e \in p..(Len(s) + 1) :
        /\ TriviaPrefix(s, p, e)
        /\ \A f \in (e + 1)..(Len(s) + 1) : ~TriviaPrefix(s, p, f)

\* Where the last pull dispatched, and on which character.
LastStart == FirstNonTrivia(input, prevPos)
LastChar == Peek(input, LastStart)

\* The text from index p to the end.
Suffix(s, p) == SubSeq(s, p, Len(s))

(* C1: forward progress.  The cursor never moves back; a pull that returned
   a token or an error moved it forward by at least one character; so the
   tokens and errors returned so far are at most as many as the characters
   consumed so far, hence at most as many as the characters of the input. *)
ForwardProgress ==
    /\ prevPos <= pos
    /\ Returned => prevPos < pos
    /\ Len(out) <= pos - 1
    /\ Len(out) <= Len(input)

\* Every character of a three-character input gave its own token or error,
\* the last of them an error.
ForwardProgressWitness ==
    /\ Len(input) >= 3
    /\ Len(out) = Len(input)
    /\ result.kind = "Err"

(* C2: end of input is terminal and repeatable.  A pull made after a pull
   that returned None returns None again, and moves nothing. *)
EndIsTerminal ==
    [][result.kind = "None" => (result' = None /\ out' = out /\ pos' = pos)]_vars

\* None was returned twice after a token had been returned.
EndIsTerminalWitness ==
    /\ endPulls >= 2
    /\ result.kind = "None"
    /\ Len(out) >= 1

(* C7: a pull returns None exactly when everything from the cursor on is
   whitespace and ';' comments; a pull that returns a token or an error
   skipped trivia only, and returned what a pull on the text starting at
   the first non-trivia character returns. *)
EndExactlyOnTrivia ==
    Pulled =>
        /\ (result.kind = "None") <=> (LastStart > Len(input))
        /\ (prevPos = 1 /\ TriviaPrefix(input, 1, Len(input) + 1)) => out = <<>>
        /\ Returned =>
              LET r == next(Suffix(input, LastStart), 1)
              IN  /\ result = r.res
                  /\ pos = LastStart + r.pos - 1
                  /\ pos > LastStart

\* A comment that ends at a newline, with a token after it, has been
\* skipped by a pull that returned that token.
EndExactlyOnTriviaWitness ==
    /\ Returned
    /\ prevPos < LastStart
    /\ \E i \in prevPos..(LastStart - 2) : input[i] = ";" /\ input[LastStart - 1] = "\n"

(* C3, as claimed: when a pull returns an error, every character that
   caused it lies before the cursor, so that no later pull examines it.  An
   erroring pull examines nothing beyond the cursor but the character whose
   value decided the error (the one after '=' or after a backslash), so the
   characters that caused the error are those it examined. *)
ErrorConsumesWhatItExamined == result.kind = "Err" => look < pos

(* C3, amended: a pull that returns an error has moved the cursor past the
   character the error is reported at: the unexpected character (which is
   the payload), the '=', the backslash of the bad escape, or the whole
   unterminated literal.  At most the one character after it was peeked and
   is left for the next pull, which is not held back.  The text "($)" gives an
   open bracket, unexpected character '$', a close bracket. *)
ErrorThenContinue ==
    /\ result.kind = "Err" =>
          /\ prevPos < pos
          /\ look <= pos
          /\ CanPull
          /\ CASE result.tok.type = "UnexpectedChar" ->
                    /\ pos = LastStart + 1
                    /\ result.tok.text = <<input[LastStart]>>
                    /\ look < pos
               [] result.tok.type = "IncompleteString" ->
                    \/ LastChar = "=" /\ pos = LastStart + 1
                    \/ LastChar = "\"" /\ pos = Len(input) + 1
               [] result.tok.type = "InvalidEscape" ->
                    /\ LastChar = "\""
                    /\ pos > LastStart + 1
                    /\ input[pos - 1] = "\\"
                    /\ Peek(input, pos) \notin {"\"", "\\"}
    /\ (input = <<"(", "$", ")">> /\ result.kind = "None") =>
          out = <<Ok(Tok("OpenParen")), Err(TextTok("UnexpectedChar", <<"$">>)),
                  Ok(Tok("CloseParen"))>>

\* An invalid escape was reported and the character after the backslash
\* then started a token of its own.
ErrorThenContinueWitness ==
    /\ Len(out) = 2
    /\ out[1] = Err(Tok("InvalidEscape"))
    /\ out[2].kind = "Ok"
    /\ look >= pos - 1

\* How the text after an opening quote ends: "closed" at an unescaped
\* quote, "badescape" at a backslash followed by neither quote nor
\* backslash, "open" when the input ends first.
RECURSIVE StringBody(_, _)
StringBody(s, i) ==
    IF i > Len(s) THEN "open"
    ELSE IF s[i] = "\"" THEN "closed"
    ELSE IF s[i] = "\\"
    THEN IF i + 1 <= Len(s) /\ s[i + 1] \in {"\"", "\\"}
         THEN StringBody(s, i + 2)
         ELSE "badescape"
    ELSE StringBody(s, i + 1)

\* An opening quote and no closing quote before the end of the input.
Unterminated(s) == Len(s) >= 1 /\ s[1] = "\"" /\ StringBody(s, 2) # "closed"

\* The stream so far of an input that gives one IncompleteString and then
\* the end of the input.
OneIncompleteString ==
    \/ result = NotPulled /\ out = <<>>
    \/ result = Err(Tok("IncompleteString")) /\ out = <<result>> /\ endPulls = 0
    \/ result = None /\ out = <<Err(Tok("IncompleteString"))>> /\ endPulls > 0

(* C4, as claimed: every input that is an unterminated string, whatever
   follows the opening quote, gives exactly one IncompleteString error and
   then the end of the input. *)
UnterminatedGivesOneError == Unterminated(input) => OneIncompleteString

(* C4, amended: an input that is an unterminated string in which every
   escape is a backslash followed by a quote or a backslash gives exactly
   one IncompleteString error and then the end of the input. *)
UnterminatedValidEscapes ==
    (Unterminated(input) /\ StringBody(input, 2) = "open") => OneIncompleteString

\* An unterminated string with an escaped quote in it has been pulled to
\* the end.
UnterminatedValidEscapesWitness ==
    /\ Unterminated(input)
    /\ StringBody(input, 2) = "open"
    /\ \E i \in 2..(Len(input) - 1) : input[i] = "\\" /\ input[i + 1] = "\""
    /\ endPulls > 0

\* The last pull entered numeric scanning, and where its text starts.
EnteredNumber ==
    /\ Pulled
    /\ \/ Arm(LastChar) = "Number"
       \/ LastChar \in {"+", "-"} /\ is_numeric(Peek(input, LastStart + 1))
NumberStart == IF LastChar \in {"+", "-"} THEN LastStart + 1 ELSE LastStart

(* C5: the numeric parse never fails.  Whenever a pull entered numeric
   scanning the text it accumulated is decimal digits with at most one
   decimal point, and the pull did not abort. *)
NumericParseNeverFails ==
    /\ result.kind # "Panic"
    /\ EnteredNumber =>
          LET t == SubSeq(input, NumberStart, pos - 1)
          IN  /\ \A i \in 1..Len(t) : t[i] \in AsciiDigits \cup {"."}
              /\ Cardinality({i \in 1..Len(t) : t[i] = "."}) <= 1

(* C6: sign or operator.  A pull that dispatched on '+' or '-' returns,
   when the next character is a digit, one number token for the sign and
   the whole literal (negated for '-'), and otherwise the operator token
   with only the sign consumed. *)
SignOrOperator ==
    (Pulled /\ LastChar \in {"+", "-"}) =>
        LET sign == IF LastChar = "-" THEN -1 ELSE 1
            op == IF LastChar = "-" THEN "Minus" ELSE "Plus"
            e == NumberEnd(input, LastStart + 1)
            v == ParseF64(SubSeq(input, LastStart + 1, e - 1))
        IN  IF is_numeric(Peek(input, LastStart + 1))
            THEN /\ pos = e
                 /\ result.kind = "Ok"
                 /\ result.tok = NumTok([mant |-> sign * v.mant, scale |-> v.scale])
            ELSE /\ result = Ok(Tok(op))
                 /\ pos = LastStart + 1

\* The least element of a non-empty set of integers.
Least(S) == CHOOSE m \in S : \A x \in S : m <= x

(* C8: hash scanning.  A pull that dispatched on '#' consumes it and the
   maximal run of non-whitespace characters after it, brackets included;
   it returns true exactly for the runs t and true, false exactly for f and
   false, and otherwise an identifier whose text is the run; never an
   error. *)
HashScanning ==
    (Pulled /\ LastChar = "#") =>
        LET e == Least({i \in (LastStart + 1)..Len(input) : is_whitespace(input[i])}
                       \cup {Len(input) + 1})
            run == SubSeq(input, LastStart + 1, e - 1)
            trues == {<<"t">>, <<"t", "r", "u", "e">>}
            falses == {<<"f">>, <<"f", "a", "l", "s", "e">>}
        IN  /\ pos = e
            /\ result.kind = "Ok"
            /\ (result.tok = BoolTok(TRUE)) <=> (run \in trues)
            /\ (result.tok = BoolTok(FALSE)) <=> (run \in falses)
            /\ run \notin trues \cup falses => result.tok = TextTok("Identifier", run)

\* The run after '#' went through a bracket and gave an identifier.
HashScanningWitness ==
    /\ Pulled
    /\ LastChar = "#"
    /\ result.tok.type = "Identifier"
    /\ \E i \in 1..Len(result.tok.text) : IsBracket(result.tok.text[i])

(* C9: the equal rule.  A pull that dispatched on '=' consumes exactly that
   character; it returns the equal operator exactly when a next character
   exists and is whitespace, and otherwise the IncompleteString error. *)
EqualRule ==
    (Pulled /\ LastChar = "=") =>
        /\ pos = LastStart + 1
        /\ result \in {Ok(Tok("Equal")), Err(Tok("IncompleteString"))}
        /\ (result = Ok(Tok("Equal"))) <=>
              (LastStart + 1 <= Len(input) /\ is_whitespace(input[LastStart + 1]))

\* A '=' that ends the input, after something else, gave the error.
EqualRuleWitness ==
    /\ Pulled
    /\ LastChar = "="
    /\ LastStart = Len(input)
    /\ Len(input) >= 2
    /\ result = Err(Tok("IncompleteString"))

\* The token of each reserved word.
KeywordToken(w) ==
    CASE w = <<"c", "o", "n", "d">> -> "Cond"
      [] w = <<"e", "l", "s", "e">> -> "Else"
      [] w = <<"l", "e", "t">> -> "Let"
      [] w = <<"l", "i", "s", "t">> -> "List"
      [] w = <<"d", "e", "f", "i", "n", "e">> -> "Define"
      [] w = <<"l", "a", "m", "b", "d", "a">> -> "Lambda"

(* C10: word scanning.  A pull that dispatched on an alphabetic,
   non-numeric character or on '_' consumes the maximal run up to the first
   whitespace, bracket or end of input; it returns the keyword token
   exactly when the run is one of the six reserved words, spelled in that
   case, and otherwise an identifier whose text is the run. *)
WordScanning ==
    (Pulled /\ ((is_alphabetic(LastChar) /\ ~is_numeric(LastChar)) \/ LastChar = "_")) =>
        LET e == Least({i \in LastStart..Len(input) :
                           is_whitespace(input[i]) \/ IsBracket(input[i])}
                       \cup {Len(input) + 1})
            run == SubSeq(input, LastStart, e - 1)
        IN  /\ pos = e
            /\ e > LastStart
            /\ result.kind = "Ok"
            /\ (result.tok.type # "Identifier") <=> (run \in Keywords)
            /\ run \in Keywords => result.tok = Tok(KeywordToken(run))
            /\ run \notin Keywords => result.tok = TextTok("Identifier", run)

\* A near miss of a keyword, directly followed by a bracket, gave an
\* identifier and left the bracket.
WordScanningWitness ==
    /\ Pulled
    /\ result = Ok(TextTok("Identifier", <<"E", "l", "s", "e">>))
    /\ IsBracket(Peek(input, pos))

\* Where the scan of a literal's text from index i stops: at the closing
\* quote, at the backslash of a bad escape, or at Len(s) + 1.
RECURSIVE StringStop(_, _)
StringStop(s, i) ==
    IF i > Len(s) THEN i
    ELSE IF s[i] = "\"" THEN i
    ELSE IF s[i] = "\\"
    THEN IF i + 1 <= Len(s) /\ s[i + 1] \in {"\"", "\\"}
         THEN StringStop(s, i + 2)
         ELSE i
    ELSE StringStop(s, i + 1)

\* The text t with each two-character escape replaced by its second
\* character.
RECURSIVE Unescape(_)
Unescape(t) ==
    IF t = <<>> THEN <<>>
    ELSE IF Head(t) = "\\" /\ Len(t) >= 2
    THEN <<t[2]>> \o Unescape(SubSeq(t, 3, Len(t)))
    ELSE <<Head(t)>> \o Unescape(Tail(t))

(* C11: string scanning, success path.  A pull that dispatched on a quote
   whose literal has only valid escapes and a closing quote consumes
   through that closing quote and returns a string literal whose text is
   the characters between the quotes, each escape replaced by its second
   character and every other character unchanged. *)
StringSuccess ==
    (Pulled /\ LastChar = "\"" /\ StringBody(input, LastStart + 1) = "closed") =>
        LET c == StringStop(input, LastStart + 1)
        IN  /\ pos = c + 1
            /\ result = Ok(TextTok("StringLiteral",
                                   Unescape(SubSeq(input, LastStart + 1, c - 1))))

\* A literal that is one escaped quote gave the string of one quote.
StringSuccessWitness ==
    /\ Pulled
    /\ result = Ok(TextTok("StringLiteral", <<"\"">>))
    /\ pos = LastStart + 4

(* C12: invalid escape.  A pull that dispatched on a quote and, before any
   closing quote, meets a backslash followed by a character other than a
   quote or a backslash returns the InvalidEscape error at once, with the
   cursor after that backslash; the error carries nothing of the text
   accumulated, and no string literal is returned for the literal. *)
InvalidEscapeRule ==
    (/\ Pulled
     /\ LastChar = "\""
     /\ StringBody(input, LastStart + 1) = "badescape"
     /\ StringStop(input, LastStart + 1) < Len(input)) =>
        /\ result = Err(Tok("InvalidEscape"))
        /\ pos = StringStop(input, LastStart + 1) + 1
        /\ out[Len(out)] = result

\* Characters had been accumulated when the bad escape was met.
InvalidEscapeRuleWitness ==
    /\ Pulled
    /\ LastChar = "\""
    /\ result = Err(Tok("InvalidEscape"))
    /\ pos > LastStart + 2
    /\ pos <= Len(input)

\* The end of the maximal run of digits of s from index i.
DigitRunEnd(s, i) ==
    Least({k \in i..Len(s) : ~is_numeric(s[k])} \cup {Len(s) + 1})

(* C13: numeric lexeme shape.  A pull that entered numeric scanning
   consumes a maximal run of digits, then, only if the next character is
   '.', that '.' and a further maximal run of digits, and nothing else; it
   returns a number, and a literal that ends in its decimal point has the
   value of its integer part. *)
NumericShape ==
    EnteredNumber =>
        LET d == DigitRunEnd(input, NumberStart)
            e == IF Peek(input, d) = "." THEN DigitRunEnd(input, d + 1) ELSE d
            sign == IF LastChar = "-" THEN -1 ELSE 1
        IN  /\ pos = e
            /\ d > NumberStart
            /\ Peek(input, pos) = "." => Peek(input, d) = "."
            /\ result.kind = "Ok"
            /\ result.tok.type = "NumberLiteral"
            /\ (e = d \/ e = d + 1) =>
                  /\ result.tok.scale = 0
                  /\ result.tok.mant =
                        sign * ParseF64(SubSeq(input, NumberStart, d - 1)).mant

(* C14: relational operators.  A pull that dispatched on '<' (on '>')
   consumes it and a directly following '=' and returns less-or-equal
   (greater-or-equal); with any other follower, or none, it consumes the
   one character and returns less-than (greater-than). *)
RelationalRule ==
    (Pulled /\ LastChar \in {"<", ">"}) =>
        IF Peek(input, LastStart + 1) = "="
        THEN /\ pos = LastStart + 2
             /\ result = Ok(Tok(IF LastChar = "<" THEN "LtEq" ELSE "GtEq"))
        ELSE /\ pos = LastStart + 1
             /\ result = Ok(Tok(IF LastChar = "<" THEN "Lt" ELSE "Gt"))

\* Greater-or-equal was returned with the other relational character
\* directly after it, left for the next pull.
RelationalRuleWitness ==
    /\ Pulled
    /\ result = Ok(Tok("GtEq"))
    /\ Peek(input, pos) = "<"

(* C15: bracket equivalence.  A pull that dispatched on '(', '[' or '{'
   returns the open bracket, and one that dispatched on ')', ']' or '}' the
   close bracket, with exactly that character consumed, whatever brackets
   were returned before: no error for a mismatched or unbalanced one. *)
BracketEquivalence ==
    (Pulled /\ IsBracket(LastChar)) =>
        /\ pos = LastStart + 1
        /\ result = Ok(Tok(IF LastChar \in {"(", "[", "{"}
                           THEN "OpenParen" ELSE "CloseParen"))

\* A closing brace came first and an opening parenthesis after it, and
\* both gave their bracket token.
BracketEquivalenceWitness ==
    /\ Len(out) = 2
    /\ input[1] = "}"
    /\ out[1] = Ok(Tok("CloseParen"))
    /\ input[pos - 1] = "("
    /\ result = Ok(Tok("OpenParen"))

(* C16: statelessness between pulls.  What a pull returns and how far it
   moves the cursor is what the first pull of a fresh scanner on the text
   from the cursor on returns and moves; and what has been returned so far,
   followed by the whole stream of a fresh scanner on the text from the
   cursor on, is the whole stream of the input. *)
Statelessness ==
    /\ Pulled =>
          LET r == next(Suffix(input, prevPos), 1)
          IN  /\ result = r.res
              /\ pos = prevPos + r.pos - 1
    /\ out \o (IF result.kind \in {"None", "Panic"}
               THEN <<result>>
               ELSE Stream(Suffix(input, pos), 1))
          = Stream(input, 1)

\* Two values have been returned, the last one an error, and a sign with a
\* digit after it is still to come, directly after the cursor.
StatelessnessWitness ==
    /\ Len(out) = 2
    /\ result.kind = "Err"
    /\ Peek(input, pos) = "-"
    /\ Peek(input, pos + 1) = "1"

\* The characters an arm before the last one of next takes.
Dispatched(c) ==
    \/ IsBracket(c)
    \/ c \in {"=", "<", ">", "+", "-", "*", "/", "%", "#", "\""}
    \/ c = "_"
    \/ is_alphabetic(c)
    \/ is_numeric(c)

(* C18: the payload of UnexpectedChar.  Every UnexpectedChar error carries
   one character, which is the one character its pull consumed after the
   trivia, and which is not whitespace, ';', a bracket, one of
   = < > + - * / % # ", '_', alphabetic or numeric; and the character the
   next pull dispatches on is neither whitespace nor ';'. *)
UnexpectedPayload ==
    /\ \A k \in 1..Len(out) :
          out[k].tok.type = "UnexpectedChar" =>
              /\ out[k].kind = "Err"
              /\ Len(out[k].tok.text) = 1
              /\ ~is_whitespace(out[k].tok.text[1])
              /\ out[k].tok.text[1] # ";"
              /\ ~Dispatched(out[k].tok.text[1])
    /\ result.tok.type = "UnexpectedChar" =>
          /\ pos = LastStart + 1
          /\ result.tok.text = <<input[LastStart]>>
    /\ LET c == Peek(input, consume_whitespace_and_comments_until_next_input(input, pos))
       IN  ~is_whitespace(c) /\ c # ";"

\* A comment was skipped and the character after its newline was
\* reported as unexpected.
UnexpectedPayloadWitness ==
    /\ result.kind = "Err"
    /\ result.tok.type = "UnexpectedChar"
    /\ input[prevPos] = ";"
    /\ LastStart > prevPos + 1

\* Some character of s from index a to index b is a ';'.
HasSemicolon(s, a, b) == \E i \in a..b : s[i] = ";"

(* C19: a ';' starts a comment only at a token boundary.  A ';' inside a
   word, inside the run after '#' or inside a string literal is content of
   that lexeme: the lexeme ends where it would end without the ';' being
   special and the token carries the ';' and what follows it.  A ';' met
   at a token boundary gives nothing up to the next newline: the pull
   returns what a pull started after that newline returns, or None when
   no newline follows. *)
CommentOnlyAtBoundary ==
    Pulled =>
        /\ Arm(LastChar) = "Word" =>
              LET e == Least({i \in LastStart..Len(input) :
                                 is_whitespace(input[i]) \/ IsBracket(input[i])}
                             \cup {Len(input) + 1})
              IN  HasSemicolon(input, LastStart, e - 1) =>
                      /\ pos = e
                      /\ result = Ok(TextTok("Identifier",
                                             SubSeq(input, LastStart, e - 1)))
        /\ LastChar = "#" =>
              LET e == Least({i \in (LastStart + 1)..Len(input) :
                                 is_whitespace(input[i])}
                             \cup {Len(input) + 1})
              IN  HasSemicolon(input, LastStart + 1, e - 1) =>
                      /\ pos = e
                      /\ result = Ok(TextTok("Identifier",
                                             SubSeq(input, LastStart + 1, e - 1)))
        /\ (LastChar = "\"" /\ StringBody(input, LastStart + 1) = "closed") =>
              LET c == StringStop(input, LastStart + 1)
              IN  HasSemicolon(input, LastStart + 1, c - 1) =>
                      /\ pos = c + 1
                      /\ result = Ok(TextTok("StringLiteral",
                                     Unescape(SubSeq(input, LastStart + 1, c - 1))))
        /\ LET b == Least({i \in prevPos..Len(input) : ~is_whitespace(input[i])}
                          \cup {Len(input) + 1})
               nl == Least({i \in b..Len(input) : input[i] = "\n"}
                           \cup {Len(input) + 1})
           IN  Peek(input, b) = ";" =>
                   IF nl > Len(input)
                   THEN result = None /\ pos = Len(input) + 1
                   ELSE LET r == next(Suffix(input, nl + 1), 1)
                        IN  result = r.res /\ pos = nl + r.pos

\* A word with a ';' in the middle gave one identifier of the three
\* characters.
CommentOnlyAtBoundaryWitness ==
    /\ Pulled
    /\ result = Ok(TextTok("Identifier", <<"a", ";", "a">>))

====
